---- MODULE Spec2Model ----
(***************************************************************************)
(* State-machine model of src/main.py: JPGVideoFrameExtractor              *)
(* (extract_frames, extract_by_time_intervals), main() and the __main__    *)
(* block.  One action per straight-line step of the code; the read loop is *)
(* split at cap.read() so that every state "before and after every frame   *)
(* read and every image write" is a state of the model.                    *)
(*                                                                         *)
(* Optional Python values (None or a number) are sequences: <<>> is None   *)
(* and <<v>> is the number v.  Frame rates are integers (multiples of one  *)
(* common unit); the code only compares them, divides one by another and   *)
(* multiplies by a number of seconds.                                      *)
(***************************************************************************)
EXTENDS Integers, Sequences, FiniteSets, TLC

VARIABLES
    video,              \* the file the video path names: exists, opens, frames, reported count, fps
    output_dir_exists,  \* os.path.exists(output_dir)
    entry,              \* which entry point started the run
    argv,               \* the parsed command line (argparse namespace) of a script run
    interval_seconds,   \* argument of extract_by_time_intervals
    args,               \* the arguments of the extract_frames call
    calls,              \* number of extract_frames calls made
    jpg_quality,        \* local jpg_quality (after validation)
    frame_interval,     \* local frame_interval (after the target_fps override)
    original_fps,       \* local original_fps
    total_frames,       \* local total_frames
    estimated_frames,   \* local estimated_frames, the progress-bar total
    frame_count,        \* local frame_count
    saved_count,        \* local saved_count
    ret,                \* local ret of the last cap.read()
    pos,                \* frames the capture has decoded so far (its position)
    files,              \* the cv2.imwrite calls made, in order
    opened,             \* capture handles opened (isOpened() true)
    released,           \* cap.release() calls
    pc,                 \* position in the code
    result              \* how the run ended

vars == <<video, output_dir_exists, entry, argv, interval_seconds, args, calls,
          jpg_quality, frame_interval, original_fps, total_frames,
          estimated_frames, frame_count, saved_count, ret, pos, files,
          opened, released, pc, result>>

----------------------------------------------------------------------------
(* Bounds of the model *)

MaxFrames == 4          \* short videos have 0..MaxFrames decodable frames
LongFrames == 11        \* one long video, for file indices of two digits
MaxInterval == 3        \* largest frame_interval argument
MaxCap == 3             \* largest max_frames argument
MaxFps == 2             \* largest frame rate
MaxSeconds == 2         \* largest interval_seconds argument

(* Program constants *)

MinQuality == 1
MaxQuality == 100
DefaultQuality == 95
PadWidth == 6
CliDefaultInterval == 1
CliDefaultQuality == 95
ScriptMaxFrames == 17
ScriptQuality == 90
DefaultFrameInterval == 1

None == <<>>
Some(v) == <<v>>
Val(o) == o[1]

\* Python truthiness of an optional number: None and 0 are false.
Truthy(o) == o # None /\ Val(o) # 0

Max(a, b) == IF a >= b THEN a ELSE b
Min(a, b) == IF a <= b THEN a ELSE b

\* Python's a // b on integers (floor), b # 0.
PyFloorDiv(a, b) == IF b > 0 THEN a \div b ELSE (-a) \div (-b)

\* Python's a % b on integers (sign of the divisor), b # 0.
PyMod(a, b) == IF b > 0 THEN a % b ELSE -((-a) % (-b))

\* Python's int(a / b): true division, then truncation toward zero, b # 0.
TruncDiv(a, b) ==
    LET q == IF a >= 0 THEN a \div (IF b > 0 THEN b ELSE -b)
                       ELSE (-a) \div (IF b > 0 THEN b ELSE -b)
    IN IF (a >= 0) = (b > 0) THEN q ELSE -q

----------------------------------------------------------------------------
(* File names: f"frame_{saved_count:06d}.jpg" *)

DigitChar(d) ==
    CASE d = 0 -> "0" [] d = 1 -> "1" [] d = 2 -> "2" [] d = 3 -> "3"
      [] d = 4 -> "4" [] d = 5 -> "5" [] d = 6 -> "6" [] d = 7 -> "7"
      [] d = 8 -> "8" [] d = 9 -> "9"

RECURSIVE Decimal(_)
Decimal(n) == IF n < 10 THEN DigitChar(n)
              ELSE Decimal(n \div 10) \o DigitChar(n % 10)

RECURSIVE ZeroPad(_, _)
ZeroPad(s, w) == IF Len(s) >= w THEN s ELSE ZeroPad("0" \o s, w)

FrameName_UsesFrameCount(n) ==
    "frame_" \o ZeroPad(Decimal(frame_count), PadWidth) \o ".jpg"

FrameName(n) == "frame_" \o ZeroPad(Decimal(n), PadWidth) \o ".jpg"

----------------------------------------------------------------------------
(* Input domains *)

VideoLengths == (0..MaxFrames) \cup {LongFrames}

\* CAP_PROP_FRAME_COUNT is container metadata: exact, missing (0) or one too many.
ReportedCounts(t) == {0, t, t + 1}

Videos ==
    { [exists |-> FALSE, opens |-> FALSE, frames |-> 0, reported |-> 0, fps |-> 0],
      [exists |-> TRUE,  opens |-> FALSE, frames |-> 0, reported |-> 0, fps |-> 0] }
    \cup
    UNION { { [exists |-> TRUE, opens |-> TRUE, frames |-> t, reported |-> r, fps |-> f] :
                r \in ReportedCounts(t), f \in 0..MaxFps } : t \in VideoLengths }

IntervalArgs == (-1)..MaxInterval
TargetFpsArgs == {None} \cup { Some(f) : f \in (-1)..MaxFps }
MaxFramesArgs == {None} \cup { Some(m) : m \in (-1)..MaxCap }
QualityArgs == {MinQuality - 1, MinQuality, MaxQuality, MaxQuality + 1}

NoArgs == [video_path |-> "", output_dir |-> "", frame_interval |-> 0,
           target_fps |-> None, max_frames |-> None, jpg_quality |-> 0]

NoArgv == [video_path |-> "", output |-> None, interval |-> None, fps |-> None,
           max_frames |-> None, quality |-> None]

Argvs ==
    [video_path : {"clip.mp4"}, output : {None, Some("out")},
     interval : {None, Some(2)}, fps : {None, Some(1)},
     max_frames : {None, Some(1)}, quality : {None, Some(MinQuality)}]

----------------------------------------------------------------------------
Init ==
    /\ video \in Videos
    /\ output_dir_exists \in BOOLEAN
    /\ entry = "none"
    /\ argv = NoArgv
    /\ interval_seconds = 0
    /\ args = NoArgs
    /\ calls = 0
    /\ jpg_quality = 0
    /\ frame_interval = 0
    /\ original_fps = 0
    /\ total_frames = 0
    /\ estimated_frames = 0
    /\ frame_count = 0
    /\ saved_count = 0
    /\ ret = FALSE
    /\ pos = 0
    /\ files = <<>>
    /\ opened = 0
    /\ released = 0
    /\ pc = "idle"
    /\ result = "none"

----------------------------------------------------------------------------
(* Lines 28-31: an out-of-range quality is replaced by the default. *)

EffectiveQuality_AcceptsZero(q) ==
    IF q < MinQuality - 1 \/ q > MaxQuality THEN DefaultQuality ELSE q

EffectiveQuality(q) ==
    IF q < MinQuality \/ q > MaxQuality THEN DefaultQuality ELSE q

(* Line 84: the frame with 0-based decode index n is kept. *)

KeepFrame_CountsFromOne(n, i) == PyMod(n + 1, i) = 0

KeepFrame(n, i) == PyMod(n, i) = 0

(* Lines 81: the cap test of the loop. *)
CapReached == Truthy(args.max_frames) /\ saved_count >= Val(args.max_frames)

(* Lines 139-147: the call main() makes from the parsed command line. *)
MainCall(a) ==
    [video_path     |-> a.video_path,
     output_dir     |-> IF a.output = None THEN "jpg_frames" ELSE Val(a.output),
     frame_interval |-> IF a.interval = None THEN CliDefaultInterval ELSE Val(a.interval),
     target_fps     |-> a.fps,
     max_frames     |-> a.max_frames,
     jpg_quality    |-> IF a.quality = None THEN CliDefaultQuality ELSE Val(a.quality)]

(* Lines 153-154: the call the __main__ block makes. *)
ScriptCall ==
    [video_path     |-> "Video_20251103164935468.avi",
     output_dir     |-> "jpg_frames_limited",
     frame_interval |-> DefaultFrameInterval,
     target_fps     |-> None,
     max_frames     |-> Some(ScriptMaxFrames),
     jpg_quality    |-> ScriptQuality]

(* Binding of the parameters of extract_frames (lines 10-11). *)
Enter(a) ==
    /\ args' = a
    /\ calls' = calls + 1
    /\ jpg_quality' = a.jpg_quality
    /\ frame_interval' = a.frame_interval
    /\ pc' = "check_file"

----------------------------------------------------------------------------
(* Entry points *)

\* A caller invokes extract_frames directly.
CallExtractFrames ==
    /\ pc = "idle"
    /\ entry' = "extract_frames"
    /\ \E i \in IntervalArgs, f \in TargetFpsArgs, m \in MaxFramesArgs, q \in QualityArgs :
         Enter([video_path |-> "clip.mp4", output_dir |-> "out", frame_interval |-> i,
                target_fps |-> f, max_frames |-> m, jpg_quality |-> q])
    /\ UNCHANGED <<video, output_dir_exists, argv, interval_seconds, original_fps,
                   total_frames, estimated_frames, frame_count, saved_count, ret,
                   pos, files, opened, released, result>>

\* A caller invokes extract_by_time_intervals.
CallExtractByTimeIntervals ==
    /\ pc = "idle"
    /\ entry' = "extract_by_time_intervals"
    /\ interval_seconds' \in 0..MaxSeconds
    /\ jpg_quality' \in QualityArgs
    /\ pc' = "ti_open"
    /\ UNCHANGED <<video, output_dir_exists, argv, args, calls, frame_interval,
                   original_fps, total_frames, estimated_frames, frame_count,
                   saved_count, ret, pos, files, opened, released, result>>

\* The file is run as a script with some command line: the __main__ block.
RunScript ==
    /\ pc = "idle"
    /\ entry' = "script"
    /\ argv' \in Argvs
    /\ Enter(ScriptCall)
    /\ UNCHANGED <<video, output_dir_exists, interval_seconds, original_fps,
                   total_frames, estimated_frames, frame_count, saved_count, ret,
                   pos, files, opened, released, result>>

----------------------------------------------------------------------------
(* extract_by_time_intervals *)

\* Lines 115-119.
TI_Open ==
    /\ pc = "ti_open"
    /\ IF video.opens
         THEN /\ opened' = opened + 1
              /\ pc' = "ti_compute"
              /\ UNCHANGED result
         ELSE /\ result' = "False"
              /\ pc' = "done"
              /\ UNCHANGED opened
    /\ UNCHANGED <<video, output_dir_exists, entry, argv, interval_seconds, args,
                   calls, jpg_quality, frame_interval, original_fps, total_frames,
                   estimated_frames, frame_count, saved_count, ret, pos, files,
                   released>>

\* Lines 121-125: the stride, then the call of extract_frames whose result is returned.
TI_Compute ==
    /\ pc = "ti_compute"
    /\ Enter([video_path |-> "clip.mp4", output_dir |-> "out",
              frame_interval |-> Max(1, video.fps * interval_seconds),
              target_fps |-> None, max_frames |-> None,
              jpg_quality |-> jpg_quality])
    /\ UNCHANGED <<video, output_dir_exists, entry, argv, interval_seconds,
                   original_fps, total_frames, estimated_frames, frame_count,
                   saved_count, ret, pos, files, opened, released, result>>

----------------------------------------------------------------------------
(* extract_frames *)

\* Lines 24-26.
CheckVideoFile ==
    /\ pc = "check_file"
    /\ IF ~video.exists
         THEN result' = "False" /\ pc' = "done"
         ELSE pc' = "validate_quality" /\ UNCHANGED result
    /\ UNCHANGED <<video, output_dir_exists, entry, argv, interval_seconds, args,
                   calls, jpg_quality, frame_interval, original_fps, total_frames,
                   estimated_frames, frame_count, saved_count, ret, pos, files,
                   opened, released>>

\* Lines 29-35: the quality check, then the output directory is created.
ValidateQuality ==
    /\ pc = "validate_quality"
    /\ jpg_quality' = EffectiveQuality(jpg_quality)
    /\ output_dir_exists' = TRUE
    /\ pc' = "open"
    /\ UNCHANGED <<video, entry, argv, interval_seconds, args, calls,
                   frame_interval, original_fps, total_frames, estimated_frames,
                   frame_count, saved_count, ret, pos, files, opened, released,
                   result>>

OpenVideo_NoOpenCheck ==
    /\ pc = "open"
    /\ opened' = opened + 1
    /\ pc' = "get_info"
    /\ UNCHANGED <<video, output_dir_exists, entry, argv, interval_seconds, args,
                   calls, jpg_quality, frame_interval, original_fps, total_frames,
                   estimated_frames, frame_count, saved_count, ret, pos, files,
                   released, result>>

\* Lines 38-42.
OpenVideo ==
    /\ pc = "open"
    /\ IF video.opens
         THEN /\ opened' = opened + 1
              /\ pc' = "get_info"
              /\ UNCHANGED result
         ELSE /\ result' = "False"
              /\ pc' = "done"
              /\ UNCHANGED opened
    /\ UNCHANGED <<video, output_dir_exists, entry, argv, interval_seconds, args,
                   calls, jpg_quality, frame_interval, original_fps, total_frames,
                   estimated_frames, frame_count, saved_count, ret, pos, files,
                   released>>

\* Lines 45-55: the duration printed at line 54 divides by original_fps.
GetVideoInfo ==
    /\ pc = "get_info"
    /\ original_fps' = video.fps
    /\ total_frames' = video.reported
    /\ IF video.fps = 0
         THEN result' = "ZeroDivisionError" /\ pc' = "done"
         ELSE pc' = "compute_interval" /\ UNCHANGED result
    /\ UNCHANGED <<video, output_dir_exists, entry, argv, interval_seconds, args,
                   calls, jpg_quality, frame_interval, estimated_frames,
                   frame_count, saved_count, ret, pos, files, opened, released>>

\* Lines 58-59.
ComputeInterval ==
    /\ pc = "compute_interval"
    /\ frame_interval' =
         IF Truthy(args.target_fps) /\ Val(args.target_fps) < original_fps
           THEN Max(1, TruncDiv(original_fps, Val(args.target_fps)))
           ELSE frame_interval
    /\ pc' = "estimate"
    /\ UNCHANGED <<video, output_dir_exists, entry, argv, interval_seconds, args,
                   calls, jpg_quality, original_fps, total_frames,
                   estimated_frames, frame_count, saved_count, ret, pos, files,
                   opened, released, result>>

\* Lines 61-76: total_frames // frame_interval, the cap, the counters.
EstimateFrames ==
    /\ pc = "estimate"
    /\ IF frame_interval = 0
         THEN /\ result' = "ZeroDivisionError"
              /\ pc' = "done"
              /\ UNCHANGED <<estimated_frames, frame_count, saved_count>>
         ELSE /\ estimated_frames' =
                   IF Truthy(args.max_frames)
                     THEN Min(PyFloorDiv(total_frames, frame_interval), Val(args.max_frames))
                     ELSE PyFloorDiv(total_frames, frame_interval)
              /\ frame_count' = 0
              /\ saved_count' = 0
              /\ pc' = "read"
              /\ UNCHANGED result
    /\ UNCHANGED <<video, output_dir_exists, entry, argv, interval_seconds, args,
                   calls, jpg_quality, frame_interval, original_fps, total_frames,
                   ret, pos, files, opened, released>>

\* Lines 79-82: one cap.read(), then the exit test.
ReadFrame ==
    /\ pc = "read"
    /\ ret' = (pos < video.frames)
    /\ pos' = IF pos < video.frames THEN pos + 1 ELSE pos
    /\ pc' = IF ~ret' \/ CapReached THEN "finish" ELSE "process"
    /\ UNCHANGED <<video, output_dir_exists, entry, argv, interval_seconds, args,
                   calls, jpg_quality, frame_interval, original_fps, total_frames,
                   estimated_frames, frame_count, saved_count, files, opened,
                   released, result>>

\* Lines 84-95: the frame just read is written when its index is on the stride.
ProcessFrame ==
    /\ pc = "process"
    /\ IF KeepFrame(frame_count, frame_interval)
         THEN /\ files' = Append(files, [dir     |-> args.output_dir,
                                         name    |-> FrameName(saved_count),
                                         frame   |-> pos - 1,
                                         quality |-> jpg_quality])
              /\ saved_count' = saved_count + 1
         ELSE UNCHANGED <<files, saved_count>>
    /\ frame_count' = frame_count + 1
    /\ pc' = "read"
    /\ UNCHANGED <<video, output_dir_exists, entry, argv, interval_seconds, args,
                   calls, jpg_quality, frame_interval, original_fps, total_frames,
                   estimated_frames, ret, pos, opened, released, result>>

\* Lines 97-103.
Finish ==
    /\ pc = "finish"
    /\ released' = released + 1
    /\ result' = "True"
    /\ pc' = "done"
    /\ UNCHANGED <<video, output_dir_exists, entry, argv, interval_seconds, args,
                   calls, jpg_quality, frame_interval, original_fps, total_frames,
                   estimated_frames, frame_count, saved_count, ret, pos, files,
                   opened>>

----------------------------------------------------------------------------
Next ==
    \/ CallExtractFrames
    \/ CallExtractByTimeIntervals
    \/ RunScript
    \/ TI_Open
    \/ TI_Compute
    \/ CheckVideoFile
    \/ ValidateQuality
    \/ OpenVideo
    \/ GetVideoInfo
    \/ ComputeInterval
    \/ EstimateFrames
    \/ ReadFrame
    \/ ProcessFrame
    \/ Finish

Spec == Init /\ [][Next]_vars

----------------------------------------------------------------------------
(* Helpers of the properties *)

InRange(q) == q >= MinQuality /\ q <= MaxQuality

DigitValue(c) == CHOOSE d \in 0..9 : DigitChar(d) = c

IsDigits(s) == \A i \in 1..Len(s) : \E d \in 0..9 : DigitChar(d) = SubSeq(s, i, i)

RECURSIVE ParseDecimal(_)
ParseDecimal(s) ==
    IF Len(s) = 0 THEN 0
    ELSE 10 * ParseDecimal(SubSeq(s, 1, Len(s) - 1)) + DigitValue(SubSeq(s, Len(s), Len(s)))

\* The index field of a file name: what lies between "frame_" and ".jpg".
IndexField(name) == SubSeq(name, 7, Len(name) - 4)

WellFormedName(name) ==
    /\ Len(name) >= 11
    /\ SubSeq(name, 1, 6) = "frame_"
    /\ SubSeq(name, Len(name) - 3, Len(name)) = ".jpg"
    /\ IsDigits(IndexField(name))

Capped(n, m) == IF m = None THEN n ELSE Min(n, Val(m))

InLoop == pc \in {"read", "process", "finish"}

\* The loop has been left (line 97 onwards).
Exited == pc = "finish" \/ (pc = "done" /\ result = "True")

WrittenFrames == { files[k].frame : k \in 1..Len(files) }

----------------------------------------------------------------------------
(* C1: when extract_frames returns True with frame interval I >= 1 and      *)
(* max_frames absent or >= 1, saved_count = floor(T / I) capped by          *)
(* max_frames, T the number of decodable frames; and this is the value of   *)
(* estimated_frames (when the reported frame count is T).                   *)
C1_SavedEqualsFloorCapped ==
    (/\ pc = "done" /\ result = "True"
     /\ frame_interval >= 1
     /\ (args.max_frames = None \/ Val(args.max_frames) >= 1))
    => /\ saved_count = Capped(video.frames \div frame_interval, args.max_frames)
       /\ Len(files) = saved_count
       /\ total_frames = video.frames => saved_count = estimated_frames

(* C2: saved_count <= max_frames in every state of the extraction loop, for *)
(* every max_frames the caller passes, 0 included (checked here for every   *)
(* max_frames >= 0).                                                        *)
C2_SavedWithinMaxFrames ==
    (InLoop /\ args.max_frames # None /\ Val(args.max_frames) >= 0)
    => saved_count <= Val(args.max_frames)

(* C3: every image is written with a quality in [1,100]: the jpg_quality    *)
(* argument itself when it is in [1,100], 95 otherwise; and an out-of-range *)
(* argument does not stop the extraction (no False return on its account).  *)
C3_QualityUsed ==
    /\ \A k \in 1..Len(files) :
         /\ InRange(files[k].quality)
         /\ InRange(args.jpg_quality) => files[k].quality = args.jpg_quality
         /\ ~InRange(args.jpg_quality) => files[k].quality = DefaultQuality
    /\ (calls >= 1 /\ ~InRange(args.jpg_quality) /\ video.opens /\ pc = "done")
         => result # "False"

C3_Witness ==
    /\ pc = "done" /\ result = "True"
    /\ args.jpg_quality = MaxQuality + 1
    /\ Len(files) >= 2
    /\ files[Len(files)].quality = DefaultQuality

(* C4 as stated: each of the three error conditions (file missing, video    *)
(* unopenable, quality outside [1,100]) makes extract_frames return False   *)
(* before any frame is read or any image is written.                        *)
C4_ThreeErrorsReturnFalse ==
    (calls >= 1 /\ (~video.exists \/ ~video.opens \/ ~InRange(args.jpg_quality)))
    => /\ pc \notin {"get_info", "compute_interval", "estimate", "read", "process", "finish"}
       /\ pos = 0
       /\ files = <<>>
       /\ pc = "done" => result = "False"

(* C4 amended: a missing file and an unopenable video make extract_frames   *)
(* return False before any frame is read or any image is written; an        *)
(* out-of-range quality is detected and replaced by 95, and is no cause of  *)
(* a False return.                                                          *)
C4_FileErrorsReturnFalse ==
    /\ (calls >= 1 /\ (~video.exists \/ ~video.opens))
         => /\ pc \in {"check_file", "validate_quality", "open", "done"}
            /\ ~video.exists => pc \in {"check_file", "done"}
            /\ pos = 0
            /\ files = <<>>
            /\ opened = 0
            /\ pc = "done" => result = "False"
    /\ (calls >= 1 /\ video.opens /\ ~InRange(args.jpg_quality))
         => /\ pc \notin {"check_file", "validate_quality"} => jpg_quality = DefaultQuality
            /\ pc = "done" => result # "False"

C4_Witness ==
    /\ pc = "done" /\ result = "False" /\ calls = 1
    /\ video.exists /\ ~video.opens
    /\ InRange(args.jpg_quality)

(* C5: the n images written are named frame_000000.jpg .. frame_(n-1), the  *)
(* index zero-padded to 6 digits, in increasing order with no gap and no    *)
(* duplicate, and the next index is always the number of files written.     *)
C5_SequentialNames ==
    /\ Len(files) = saved_count
    /\ \A k \in 1..Len(files) :
         /\ WellFormedName(files[k].name)
         /\ Len(IndexField(files[k].name)) = PadWidth
         /\ ParseDecimal(IndexField(files[k].name)) = k - 1
         /\ files[k].dir = args.output_dir
    /\ \A j, k \in 1..Len(files) : j # k => files[j].name # files[k].name

C5_Witness ==
    /\ pc = "done"
    /\ Len(files) = LongFrames
    /\ files[Len(files)].name = "frame_000010.jpg"

(* C6: a script run makes exactly one extract_frames call, whose arguments  *)
(* are the parsed command-line values (with their defaults).                *)
C6_ScriptUsesCommandLine ==
    (entry = "script" /\ calls >= 1) => (calls = 1 /\ args = MainCall(argv))

(* C7 as stated (checked for frame_interval >= 1 and max_frames absent or  *)
(* >= 1): frames are decoded one by one, frame n is written iff             *)
(* n mod frame_interval = 0, and no frame is read after the first failed    *)
(* read or after the cap is reached: outside the loop body the frames       *)
(* decoded are the frames processed.                                        *)
C7_NoReadAfterCap ==
    (/\ calls >= 1 /\ args.frame_interval >= 1
     /\ (args.max_frames = None \/ Val(args.max_frames) >= 1))
    => /\ pc # "process" => pos = frame_count
       /\ InLoop /\ frame_interval >= 1 =>
            WrittenFrames = { n \in 0..(frame_count - 1) : n % frame_interval = 0 }

(* C7 amended: frames are decoded one by one; frame n is written iff it is  *)
(* processed (read while the cap is not reached) and n mod frame_interval   *)
(* = 0; the file with index k holds source frame k * frame_interval         *)
(* (frame_interval >= 1); no read follows a failed read; and once the cap   *)
(* is reached exactly one more read is made, whose frame, if there is one,  *)
(* is decoded and discarded.                                                *)
C7_StrideAndOneReadPastCap ==
    /\ pos = frame_count + (IF pc = "process" \/ (Exited /\ ret) THEN 1 ELSE 0)
    /\ pos <= video.frames
    /\ (InLoop \/ Exited) =>
         /\ WrittenFrames = { n \in 0..(frame_count - 1) : PyMod(n, frame_interval) = 0 }
         /\ frame_interval >= 1 =>
              \A k \in 1..Len(files) : files[k].frame = (k - 1) * frame_interval
         /\ Truthy(args.max_frames) => Len(files) <= Max(0, Val(args.max_frames))
    /\ Exited =>
         /\ ret => CapReached
         /\ ~ret => pos = video.frames

C7_Witness ==
    /\ pc = "done" /\ result = "True"
    /\ ret
    /\ frame_interval = 2
    /\ args.max_frames = Some(2)
    /\ Len(files) = 2
    /\ pos = frame_count + 1

(* C8: whenever target_fps is set (here: a positive number, with a          *)
(* frame_interval argument >= 1), the stride of the loop is                 *)
(* max(1, floor(original_fps / target_fps)) whatever the frame_interval     *)
(* argument, target_fps >= original_fps included.                           *)
C8_TargetFpsOverrides ==
    (/\ pc \in {"estimate", "read", "process", "finish"}
     /\ args.frame_interval >= 1
     /\ args.target_fps # None
     /\ Val(args.target_fps) > 0)
    => frame_interval = Max(1, original_fps \div Val(args.target_fps))

(* C9: every run ends by returning a boolean, never in an unhandled error.  *)
C9_ReturnsBoolean ==
    pc = "done" => result \in {"True", "False"}

(* C10: when the operation has returned, every capture handle opened during *)
(* the call has been released.                                              *)
C10_HandlesReleased ==
    (pc = "done" /\ result \in {"True", "False"}) => opened = released

====
